---- MODULE Spec2Model ----
(***************************************************************************)
(* The product tour of ai-meating-2: the useTour hook (step state machine) *)
(* of src/src/hooks/use-tour.ts and the localStorage persistence gate of   *)
(* src/src/lib/tour-definitions.ts.                                        *)
(*                                                                         *)
(* React state is modelled as it is: isActive/currentStep are the state    *)
(* cells the setters write, rIsActive/rCurrentStep are the values the      *)
(* handlers of the last render closed over.  A functional update           *)
(* (prev => prev + 1) reads the cell, a guard reads the closure.           *)
(***************************************************************************)
EXTENDS Integers, Sequences, FiniteSets, TLC

\* ---------------------------------------------------------------- bounds
\* Longest step catalog explored (the shipped catalog has 7 steps).
MaxSteps == 3
\* The callback counters count 0, 1, ..., MaxCalls and then saturate.
MaxCalls == 2
\* Most handler calls made on the handlers of one render before React renders
\* again (SpecBatched only).
MaxBatch == 2

\* ------------------------------------------------------------- constants
\* localStorage.getItem's answer for a key that is not stored.
NULL == "<null>"
TOUR_COMPLETED_KEY == "tour:meeting:completed"
TOUR_VERSION_KEY == "tour:version"
CURRENT_TOUR_VERSION == "1.0.0"

\* The tourId values a host may pass to TourProvider / useTour.
TourIds == {"meeting", "docs"}
\* The key the interface contract names for a tour's completion flag.
CompletedKeyOf(id) == IF id = "meeting" THEN "tour:meeting:completed" ELSE "tour:docs:completed"
\* The keys of the client's localStorage this model follows.
Keys == {TOUR_COMPLETED_KEY, TOUR_VERSION_KEY} \cup {CompletedKeyOf(id) : id \in TourIds}
\* Version strings found in storage: the current build's and an older build's.
StoredVersions == {CURRENT_TOUR_VERSION, "0.9.0"}
\* Which storage call of a write throws: none, the first or the second.
WriteFaults == {"none", "first", "second"}

VARIABLES
    tourId,         \* options.tourId
    totalSteps,     \* steps.length
    autoStart,      \* options.autoStart as of the latest render
    mounted,        \* the provider is mounted (its mount effects have run)
    isActive,       \* useState cell
    currentStep,    \* useState cell
    rIsActive,      \* isActive as closed over by the handlers of the last render
    rCurrentStep,   \* currentStep as closed over by the handlers of the last render
    batch,          \* handler calls made since the last render
    store,          \* localStorage: key -> string or NULL
    op,             \* the last operation performed (name and inputs / result)
    calls,          \* what the last operation called, in order
    escaped,        \* an exception left the last operation
    runCompletes,   \* onComplete invocations since the last startTour (saturating)
    runSkips,       \* onSkip invocations since the last startTour (saturating)
    advances,       \* nextStep calls since the last startTour, or -1 once anything else was called
    autoStarts,     \* startTour calls made by the auto-start effect
    mountAutoStart, \* options.autoStart at mount
    lastWrite,      \* the last markTourCompleted / resetTour that reached storage, and its fault
    activeElement,  \* document.activeElement
    previousFocusRef, \* TourProvider's previousFocusRef.current
    focusTimer,     \* the tooltip's 50 ms auto-focus timer is pending
    shownFrom,      \* document.activeElement when the tour last went from inactive to active
    view            \* the last computation of the rendering layer: its inputs and its result

vars == <<tourId, totalSteps, autoStart, mounted, isActive, currentStep, rIsActive,
          rCurrentStep, batch, store, op, calls, escaped, runCompletes, runSkips, advances,
          autoStarts, mountAutoStart, lastWrite, activeElement, previousFocusRef,
          focusTimer, shownFrom, view>>

Inc(c) == IF c < MaxCalls THEN c + 1 ELSE c

\* What the last operation called (calls), what the operation of this step calls
\* (calls').
Called(name) == \E i \in 1 .. Len(calls) : calls[i] = name
CalledNext(name) == \E i \in 1 .. Len(calls') : calls'[i] = name
CountNext(name) == Cardinality({i \in 1 .. Len(calls') : calls'[i] = name})

\* ------------------------------------------------- persistence gate (pure)
\* win: typeof window !== 'undefined'.  throws: the localStorage read throws.

isTourCompleted(win, throws, s) ==
    IF ~win THEN TRUE
    ELSE IF throws THEN FALSE
    ELSE s[TOUR_COMPLETED_KEY] = "true"

getTourVersion(win, throws, s) ==
    IF ~win THEN NULL
    ELSE IF throws THEN NULL
    ELSE s[TOUR_VERSION_KEY]

\* shouldShowTour without the version comparison.
shouldShowTourIgnoresVersion(win, rc, rv, s) ==
    IF ~win THEN FALSE
    ELSE ~isTourCompleted(win, rc, s)

shouldShowTour(win, rc, rv, s) ==
    IF ~win THEN FALSE
    ELSE IF ~isTourCompleted(win, rc, s) THEN TRUE
    ELSE IF getTourVersion(win, rv, s) # CURRENT_TOUR_VERSION THEN TRUE
    ELSE FALSE

\* Variants of markTourCompleted with a plausible slip, used to test the claims:
\* the version never written, no try/catch, the two writes in the other order,
\* the flag flipped instead of set.
markTourCompletedFlips(win, fault, s) ==
    IF ~win THEN [store |-> s, thrown |-> FALSE, log |-> <<>>]
    ELSE IF fault = "first"
         THEN [store |-> s, thrown |-> FALSE, log |-> <<"console.error">>]
    ELSE LET flag == IF s[TOUR_COMPLETED_KEY] = "true" THEN NULL ELSE "true" IN
         IF fault = "second"
         THEN [store |-> [s EXCEPT ![TOUR_COMPLETED_KEY] = flag],
               thrown |-> FALSE, log |-> <<"console.error">>]
         ELSE [store |-> [s EXCEPT ![TOUR_COMPLETED_KEY] = flag,
                                   ![TOUR_VERSION_KEY] = CURRENT_TOUR_VERSION],
               thrown |-> FALSE, log |-> <<>>]

markTourCompletedNoVersion(win, fault, s) ==
    IF ~win THEN [store |-> s, thrown |-> FALSE, log |-> <<>>]
    ELSE IF fault = "first"
         THEN [store |-> s, thrown |-> FALSE, log |-> <<"console.error">>]
    ELSE [store |-> [s EXCEPT ![TOUR_COMPLETED_KEY] = "true"],
          thrown |-> FALSE, log |-> <<>>]

markTourCompletedNoCatch(win, fault, s) ==
    IF ~win THEN [store |-> s, thrown |-> FALSE, log |-> <<>>]
    ELSE IF fault = "first"
         THEN [store |-> s, thrown |-> TRUE, log |-> <<>>]
    ELSE IF fault = "second"
         THEN [store |-> [s EXCEPT ![TOUR_COMPLETED_KEY] = "true"],
               thrown |-> TRUE, log |-> <<>>]
    ELSE [store |-> [s EXCEPT ![TOUR_COMPLETED_KEY] = "true",
                              ![TOUR_VERSION_KEY] = CURRENT_TOUR_VERSION],
          thrown |-> FALSE, log |-> <<>>]

markTourCompletedVersionFirst(win, fault, s) ==
    IF ~win THEN [store |-> s, thrown |-> FALSE, log |-> <<>>]
    ELSE IF fault = "first"
         THEN [store |-> s, thrown |-> FALSE, log |-> <<"console.error">>]
    ELSE IF fault = "second"
         THEN [store |-> [s EXCEPT ![TOUR_VERSION_KEY] = CURRENT_TOUR_VERSION],
               thrown |-> FALSE, log |-> <<"console.error">>]
    ELSE [store |-> [s EXCEPT ![TOUR_COMPLETED_KEY] = "true",
                              ![TOUR_VERSION_KEY] = CURRENT_TOUR_VERSION],
          thrown |-> FALSE, log |-> <<>>]

\* The result of a write: the store it leaves, whether an exception leaves the
\* function, and what it logs.
markTourCompleted(win, fault, s) ==
    IF ~win THEN [store |-> s, thrown |-> FALSE, log |-> <<>>]
    ELSE IF fault = "first"
         THEN [store |-> s, thrown |-> FALSE, log |-> <<"console.error">>]
    ELSE IF fault = "second"
         THEN [store |-> [s EXCEPT ![TOUR_COMPLETED_KEY] = "true"],
               thrown |-> FALSE, log |-> <<"console.error">>]
    ELSE [store |-> [s EXCEPT ![TOUR_COMPLETED_KEY] = "true",
                              ![TOUR_VERSION_KEY] = CURRENT_TOUR_VERSION],
          thrown |-> FALSE, log |-> <<>>]

resetTour(win, fault, s) ==
    IF ~win THEN [store |-> s, thrown |-> FALSE, log |-> <<>>]
    ELSE IF fault = "first"
         THEN [store |-> s, thrown |-> FALSE, log |-> <<"console.error">>]
    ELSE IF fault = "second"
         THEN [store |-> [s EXCEPT ![TOUR_COMPLETED_KEY] = NULL],
               thrown |-> FALSE, log |-> <<"console.error">>]
    ELSE [store |-> [s EXCEPT ![TOUR_COMPLETED_KEY] = NULL, ![TOUR_VERSION_KEY] = NULL],
          thrown |-> FALSE, log |-> <<>>]

\* ----------------------------------------------------- geometry (pure)
\* Lengths are CSS pixels.  The sizes explored are even, so that the halves the
\* code takes (x / 2, in floating point) are exact in integers.
GAP == 16
VIEWPORT_PADDING == 16
TOOLTIP_WIDTH == 320
TOOLTIP_HEIGHT == 200

Max(a, b) == IF a >= b THEN a ELSE b
Min(a, b) == IF a <= b THEN a ELSE b

Placements == {"top", "bottom", "left", "right", "center",
               "top-start", "top-end", "bottom-start", "bottom-end"}

\* window.innerWidth x window.innerHeight: a desktop window and a window no
\* larger than the tooltip.
Viewports == [w : {320, 800}, h : {200, 600}]
\* The tooltip's last measured size: the initial 320 x 200 and a smaller one.
TooltipSizes == [width : {120, TOOLTIP_WIDTH}, height : {80, TOOLTIP_HEIGHT}]
\* getBoundingClientRect() of a target: partly off screen, inside, near the
\* right and bottom edges; empty or not.
TargetRects == [left : {-40, 100, 700}, top : {-40, 100, 500},
                width : {0, 80, 100}, height : {0, 50}]
Paddings == {0, 8, 24}
BorderRadii == {0, 8, 40}

\* The anchor before clamping.
TooltipCandidate(rect, position, size) ==
    LET bottom == rect.top + rect.height
        right == rect.left + rect.width
        centerX == rect.left + rect.width \div 2
        centerY == rect.top + rect.height \div 2
    IN [top |-> CASE position \in {"bottom", "bottom-start", "bottom-end"} -> bottom + GAP
                  [] position \in {"top", "top-start", "top-end"} ->
                         rect.top - size.height - GAP
                  [] position \in {"left", "right"} -> centerY - size.height \div 2
                  [] OTHER -> bottom + GAP,
        left |-> CASE position \in {"bottom", "top"} -> centerX - size.width \div 2
                   [] position \in {"bottom-start", "top-start"} -> rect.left
                   [] position \in {"bottom-end", "top-end"} -> right - size.width
                   [] position = "left" -> rect.left - size.width - GAP
                   [] position = "right" -> right + GAP
                   [] OTHER -> centerX - size.width \div 2]

TooltipCenter(size, vp) ==
    [top |-> (vp.h - size.height) \div 2, left |-> (vp.w - size.width) \div 2]

\* getTooltipPosition without its clamp.
getTooltipPositionUnclamped(hasRect, rect, position, size, vp) ==
    IF ~hasRect \/ position = "center" THEN TooltipCenter(size, vp)
    ELSE TooltipCandidate(rect, position, size)

\* hasRect: targetRect is not null.
getTooltipPosition(hasRect, rect, position, size, vp) ==
    IF ~hasRect \/ position = "center" THEN TooltipCenter(size, vp)
    ELSE LET c == TooltipCandidate(rect, position, size) IN
         [top |-> Max(VIEWPORT_PADDING,
                      Min(c.top, vp.h - size.height - VIEWPORT_PADDING)),
          left |-> Max(VIEWPORT_PADDING,
                       Min(c.left, vp.w - size.width - VIEWPORT_PADDING))]

\* calculateSpotlightPath with the radius taken as given.
calculateSpotlightPathRawRadius(rect, padding, borderRadius, vp) ==
    [w |-> vp.w, h |-> vp.h,
     left |-> rect.left - padding, top |-> rect.top - padding,
     right |-> rect.left + rect.width + padding,
     bottom |-> rect.top + rect.height + padding,
     r |-> borderRadius]

\* The numbers calculateSpotlightPath puts in the path: the viewport rectangle
\* and the rounded rectangle cut out of it.
calculateSpotlightPath(rect, padding, borderRadius, vp) ==
    LET left == rect.left - padding
        top == rect.top - padding
        right == rect.left + rect.width + padding
        bottom == rect.top + rect.height + padding
    IN [w |-> vp.w, h |-> vp.h, left |-> left, top |-> top, right |-> right,
        bottom |-> bottom,
        r |-> Min(borderRadius, Min((right - left) \div 2, (bottom - top) \div 2))]

\* ------------------------------------------------------- overlay (pure)
\* steps[currentStep] when it is undefined.
NoStep == [type |-> "none", targetId |-> NULL, position |-> "center"]
\* The shapes of a TourStep that matter to the overlay.
TourSteps == [type : {"spotlight", "modal"}, targetId : {NULL, "record-button"},
              position : Placements]

currentStepData(active, step) == IF active THEN step ELSE NoStep

\* The targetElement memo: NULL or the element found.  found: the document has
\* an element with the step's data-tour-id.
targetElement(active, data, found) ==
    IF ~active \/ data = NoStep THEN NULL
    ELSE IF data.type = "modal" \/ data.targetId = NULL THEN NULL
    ELSE IF found THEN "element"
    ELSE NULL

\* TourSpotlight emits the cutout overlay.
TourSpotlight(target, isVisible) ==
    LET hasPath == target # NULL /\ isVisible IN isVisible /\ hasPath

NothingRendered ==
    [rendered |-> FALSE, cutout |-> FALSE, backdrop |-> FALSE,
     anchor |-> [top |-> 0, left |-> 0]]

\* renderOverlay without the modal backdrop.
renderOverlayNoBackdrop(isMounted, active, data, target, rect, size, vp) ==
    IF ~isMounted \/ ~active \/ data = NoStep THEN NothingRendered
    ELSE [rendered |-> TRUE,
          cutout |-> TourSpotlight(target, data.type = "spotlight" /\ target # NULL),
          backdrop |-> FALSE,
          anchor |-> getTooltipPosition(target # NULL, rect, data.position, size, vp)]

\* What renderOverlay puts in the portal: the cutout overlay, the modal
\* backdrop, and the tooltip at its anchor.
renderOverlay(isMounted, active, data, target, rect, size, vp) ==
    IF ~isMounted \/ ~active \/ data = NoStep THEN NothingRendered
    ELSE LET isSpotlight == data.type = "spotlight" /\ target # NULL IN
         [rendered |-> TRUE,
          cutout |-> TourSpotlight(target, isSpotlight),
          backdrop |-> data.type = "modal",
          anchor |-> getTooltipPosition(target # NULL, rect, data.position, size, vp)]

\* ------------------------------------------------------- useTour handlers
\* The guards read the closure (rCurrentStep), the updaters read the cell.

\* Off-by-one variants of the guards.
NextStepCompletesOffByOne(step, total) == step >= total
NextStepCompletesNever(step, total) == FALSE
PrevStepMovesFromZero(step) == step >= 0
GoToStepValidInclusive(step, total) == step >= 0 /\ step <= total

NextStepCompletes(step, total) == step >= total - 1
PrevStepMoves(step) == step > 0
GoToStepValid(step, total) == step >= 0 /\ step < total

\* startTour as a guarded start: ignored while the tour is active.
startTourIgnoredWhenActive ==
    /\ currentStep' = IF isActive THEN currentStep ELSE 0
    /\ isActive' = TRUE
    /\ calls' = IF isActive THEN <<>> ELSE <<"onStart">>
    /\ escaped' = FALSE
    /\ runCompletes' = 0
    /\ runSkips' = 0
    /\ UNCHANGED <<store, lastWrite>>

startTour ==
    /\ currentStep' = 0
    /\ isActive' = TRUE
    /\ calls' = <<"onStart">>
    /\ escaped' = FALSE
    /\ runCompletes' = 0
    /\ runSkips' = 0
    /\ UNCHANGED <<store, lastWrite>>

\* completeTour with the callback before the write.
completeTourCallbackFirst(fault) ==
    LET w == markTourCompleted(TRUE, fault, store) IN
    /\ isActive' = FALSE
    /\ currentStep' = 0
    /\ store' = w.store
    /\ lastWrite' = [fn |-> "markTourCompleted", fault |-> fault]
    /\ escaped' = w.thrown
    /\ calls' = <<"onComplete", "markTourCompleted">> \o w.log
    /\ runCompletes' = Inc(runCompletes)
    /\ UNCHANGED runSkips

completeTour(fault) ==
    LET w == markTourCompleted(TRUE, fault, store) IN
    /\ isActive' = FALSE
    /\ currentStep' = 0
    /\ store' = w.store
    /\ lastWrite' = [fn |-> "markTourCompleted", fault |-> fault]
    /\ escaped' = w.thrown
    /\ calls' = <<"markTourCompleted">> \o w.log
                  \o (IF w.thrown THEN <<>> ELSE <<"onComplete">>)
    /\ runCompletes' = IF w.thrown THEN runCompletes ELSE Inc(runCompletes)
    /\ UNCHANGED runSkips

skipTour(fault) ==
    LET w == markTourCompleted(TRUE, fault, store) IN
    /\ isActive' = FALSE
    /\ currentStep' = 0
    /\ store' = w.store
    /\ lastWrite' = [fn |-> "markTourCompleted", fault |-> fault]
    /\ escaped' = w.thrown
    /\ calls' = <<"markTourCompleted">> \o w.log
                  \o (IF w.thrown THEN <<>> ELSE <<"onSkip">>)
    /\ runSkips' = IF w.thrown THEN runSkips ELSE Inc(runSkips)
    /\ UNCHANGED runCompletes

nextStep(fault) ==
    IF NextStepCompletes(rCurrentStep, totalSteps)
    THEN completeTour(fault)
    ELSE /\ fault = "none"
         /\ currentStep' = currentStep + 1
         /\ calls' = <<>>
         /\ escaped' = FALSE
         /\ UNCHANGED <<isActive, store, lastWrite, runCompletes, runSkips>>

prevStep ==
    /\ currentStep' = IF PrevStepMoves(rCurrentStep) THEN currentStep - 1 ELSE currentStep
    /\ calls' = <<>>
    /\ escaped' = FALSE
    /\ UNCHANGED <<isActive, store, lastWrite, runCompletes, runSkips>>

goToStep(step) ==
    /\ currentStep' = IF GoToStepValid(step, totalSteps) THEN step ELSE currentStep
    /\ calls' = <<>>
    /\ escaped' = FALSE
    /\ UNCHANGED <<isActive, store, lastWrite, runCompletes, runSkips>>

\* ------------------------------------------------------------------ focus
\* What can hold the focus: the document body (nothing focused), a focusable
\* element of the page, the tooltip's buttons (close, Back, Next).
PageElements == {"body", "trigger"}
NEXT_BUTTON == "next"
CLOSE_BUTTON == "close"
BACK_BUTTON == "back"
TooltipButtons == {CLOSE_BUTTON, BACK_BUTTON, NEXT_BUTTON}

\* getFocusableElements(tooltip) for the step rendered: the buttons in document
\* order; Back is rendered on every step but the first.
getFocusableElements(step) ==
    IF step = 0 THEN <<CLOSE_BUTTON, NEXT_BUTTON>>
    ELSE <<CLOSE_BUTTON, BACK_BUTTON, NEXT_BUTTON>>

\* el is in the document, given whether the tooltip is and for which step.
Attached(el, tooltip, step) ==
    \/ el \in PageElements
    \/ tooltip /\ \E i \in 1 .. Len(getFocusableElements(step)) :
                      getFocusableElements(step)[i] = el

\* renderOverlay rendered the tooltip in the last render.
TooltipMounted == mounted /\ rIsActive /\ rCurrentStep >= 0 /\ rCurrentStep < totalSteps
\* renderOverlay renders the tooltip in a render of (active, step) of the
\* mounted provider.
TooltipRenders(active, step) == active /\ step >= 0 /\ step < totalSteps

\* onStart of TourProvider: the ref after the callbacks of this call.
onStart == IF CalledNext("onStart") THEN activeElement ELSE previousFocusRef

\* onComplete / onSkip of TourProvider: the element focused after
\* previousFocusRef.current?.focus().  Focusing the body or an element that is
\* not in the document moves nothing.
restoreFocus ==
    IF ~(CalledNext("onComplete") \/ CalledNext("onSkip")) THEN activeElement
    ELSE IF previousFocusRef = "trigger" THEN "trigger"
    ELSE IF previousFocusRef \in TooltipButtons
            /\ Attached(previousFocusRef, TooltipMounted, rCurrentStep)
         THEN previousFocusRef
    ELSE activeElement

\* The focus leaves with a button that is removed from the document.
Detach(el, tooltip, step) == IF Attached(el, tooltip, step) THEN el ELSE "body"

\* The position of a button among the focusable ones.
IndexOf(seq, el) == CHOOSE i \in 1 .. Len(seq) : seq[i] = el

\* The element the browser's own Tab handling gives the focus to, from a
\* button of the tooltip; past the last one the focus leaves the tooltip.
BrowserTab(focusable, active, shift) ==
    LET i == IndexOf(focusable, active) IN
    IF shift THEN (IF i = 1 THEN "body" ELSE focusable[i - 1])
    ELSE (IF i = Len(focusable) THEN "body" ELSE focusable[i + 1])

\* The tooltip's Tab handler without the forward wrap.
TooltipKeyDownNoWrap(focusable, active, shift) ==
    IF shift /\ active = focusable[1] THEN focusable[Len(focusable)]
    ELSE BrowserTab(focusable, active, shift)

\* TourTooltip's handleKeyDown for Tab, run when the event comes from inside
\* the tooltip: the element focused afterwards.
TooltipKeyDown(focusable, active, shift) ==
    IF shift
    THEN (IF active = focusable[1] THEN focusable[Len(focusable)]
          ELSE BrowserTab(focusable, active, shift))
    ELSE (IF active = focusable[Len(focusable)] THEN focusable[1]
          ELSE BrowserTab(focusable, active, shift))

\* The auto-focus effect of TourTooltip: it runs when the tooltip appears and
\* when the step changes, and its cleanup clears the timer.
AutoFocusEffect(active, step) ==
    focusTimer' = IF ~TooltipRenders(active, step) THEN FALSE
                  ELSE IF ~TooltipMounted \/ step # rCurrentStep THEN TRUE
                  ELSE focusTimer

\* The provider's callbacks of the handler just run.
ProviderCallbacks ==
    /\ previousFocusRef' = onStart
    /\ shownFrom' = IF CalledNext("onStart") /\ ~isActive THEN activeElement ELSE shownFrom

\* React commits the queued updates and renders: the next handlers close over
\* the cells' new values.
Commit ==
    /\ rIsActive' = isActive'
    /\ rCurrentStep' = currentStep'
    /\ batch' = 0
    /\ ProviderCallbacks
    /\ activeElement' = Detach(restoreFocus, TooltipRenders(isActive', currentStep'),
                               currentStep')
    /\ AutoFocusEffect(isActive', currentStep')

\* The handler returns and React has not rendered yet: the handlers in the
\* caller's hands still close over the values of the last render.
NoCommit ==
    /\ batch < MaxBatch
    /\ batch' = batch + 1
    /\ ProviderCallbacks
    /\ activeElement' = restoreFocus
    /\ UNCHANGED <<rIsActive, rCurrentStep, focusTimer>>

props == <<tourId, totalSteps>>

\* --------------------------------------------------------------- initial
\* Records a client can hold when the page loads: nothing, a completed tour of
\* this or an older build, or what a partial write left behind.
InitialStores ==
    {s \in [Keys -> {NULL, "true"} \cup StoredVersions] :
        /\ s[TOUR_COMPLETED_KEY] \in {NULL, "true"}
        /\ s[TOUR_VERSION_KEY] \in {NULL} \cup StoredVersions
        /\ \A k \in Keys \ {TOUR_COMPLETED_KEY, TOUR_VERSION_KEY} : s[k] = NULL}

NoWrite == [fn |-> "none", fault |-> "none"]

Init ==
    /\ tourId \in TourIds
    /\ totalSteps \in 0 .. MaxSteps
    /\ autoStart \in BOOLEAN
    /\ mounted = FALSE
    /\ isActive = FALSE
    /\ currentStep = 0
    /\ rIsActive = FALSE
    /\ rCurrentStep = 0
    /\ batch = 0
    /\ store \in InitialStores
    /\ op = [name |-> "init"]
    /\ calls = <<>>
    /\ escaped = FALSE
    /\ runCompletes = 0
    /\ runSkips = 0
    /\ advances = -1
    /\ autoStarts = 0
    /\ mountAutoStart = FALSE
    /\ lastWrite = NoWrite
    /\ activeElement = "body"
    /\ previousFocusRef = NULL
    /\ focusTimer = FALSE
    /\ shownFrom = NULL
    /\ view = [fn |-> "none"]

\* ------------------------------------------------------ mount and render
\* useEffect(..., []): the auto-start effect runs after the first render only
\* (the variant: with autoStart among its dependencies).
AutoStartEffectRunsOnChange(firstRender, autoStartChanged) == firstRender \/ autoStartChanged
AutoStartEffectRuns(firstRender, autoStartChanged) == firstRender

\* The body of the auto-start effect, run with the closure of render (a, active).
AutoStartEffect(runs, a, active) ==
    IF runs /\ a /\ ~active
    THEN /\ startTour
         /\ autoStarts' = autoStarts + 1
         /\ advances' = 0
    ELSE /\ calls' = <<>>
         /\ escaped' = FALSE
         /\ UNCHANGED <<isActive, currentStep, store, lastWrite, runCompletes, runSkips,
                        autoStarts, advances>>

Mount ==
    /\ ~mounted
    /\ mounted' = TRUE
    /\ mountAutoStart' = autoStart
    /\ AutoStartEffect(AutoStartEffectRuns(TRUE, FALSE), autoStart, rIsActive)
    /\ Commit
    /\ op' = [name |-> "mount"]
    /\ UNCHANGED <<props, autoStart, view>>

\* The host re-renders the provider, possibly with another autoStart.
Rerender ==
    /\ mounted
    /\ \E a \in BOOLEAN :
        /\ autoStart' = a
        /\ AutoStartEffect(AutoStartEffectRuns(FALSE, a # autoStart), a, rIsActive)
        /\ op' = [name |-> "rerender"]
    /\ Commit
    /\ UNCHANGED <<props, mounted, mountAutoStart, view>>

\* ------------------------------------------------------------ UI events
\* One event: the handler of the last render runs, then React commits.
frame == <<props, autoStart, mounted, autoStarts, mountAutoStart, view>>

StepArgs == -1 .. MaxSteps

DoStartTour ==
    /\ mounted
    /\ startTour
    /\ op' = [name |-> "startTour"]
    /\ advances' = 0
    /\ UNCHANGED frame

DoNextStep ==
    /\ mounted
    /\ \E f \in WriteFaults : nextStep(f)
    /\ op' = [name |-> "nextStep"]
    /\ advances' = IF advances >= 0 /\ advances < totalSteps THEN advances + 1 ELSE -1
    /\ UNCHANGED frame

DoPrevStep ==
    /\ mounted
    /\ prevStep
    /\ op' = [name |-> "prevStep"]
    /\ advances' = -1
    /\ UNCHANGED frame

DoSkipTour ==
    /\ mounted
    /\ \E f \in WriteFaults : skipTour(f)
    /\ op' = [name |-> "skipTour"]
    /\ advances' = -1
    /\ UNCHANGED frame

DoGoToStep ==
    /\ mounted
    /\ \E k \in StepArgs :
        /\ goToStep(k)
        /\ op' = [name |-> "goToStep", step |-> k]
    /\ advances' = -1
    /\ UNCHANGED frame

StartTour == DoStartTour /\ Commit
NextStep == DoNextStep /\ Commit
PrevStep == DoPrevStep /\ Commit
SkipTour == DoSkipTour /\ Commit
GoToStep == DoGoToStep /\ Commit

\* The same handlers called from code that holds them across several calls
\* (a child using the context): no render separates the calls.
InvokeStartTour == DoStartTour /\ NoCommit
InvokeNextStep == DoNextStep /\ NoCommit
InvokePrevStep == DoPrevStep /\ NoCommit
InvokeSkipTour == DoSkipTour /\ NoCommit
InvokeGoToStep == DoGoToStep /\ NoCommit

\* --------------------------------------------------------- keyboard
\* The keys a user may press; "Tab" stands for every key the switch ignores.
KeyboardKeys == {"Escape", "ArrowRight", "Enter", "ArrowLeft", "Tab"}

\* The keydown effect without its cleanup: the listener of the last render
\* outlives the provider.
KeydownListenerLeaks == rIsActive

\* The keydown effect of the last render installed the listener iff that render
\* saw the tour active (and the provider is still mounted).
KeydownListenerInstalled == mounted /\ rIsActive

\* handleKeyDown without its Enter case.
handleKeyDownNoEnter(active, key) ==
    IF ~active THEN "none"
    ELSE CASE key = "Escape" -> "skipTour"
           [] key = "ArrowRight" -> "nextStep"
           [] key = "ArrowLeft" -> "prevStep"
           [] OTHER -> "none"

\* The handler handleKeyDown calls, given the isActive it closed over.
handleKeyDown(active, key) ==
    IF ~active THEN "none"
    ELSE CASE key = "Escape" -> "skipTour"
           [] key \in {"ArrowRight", "Enter"} -> "nextStep"
           [] key = "ArrowLeft" -> "prevStep"
           [] OTHER -> "none"

\* No handler runs: the hook and the store stay as they are.
NoHandler ==
    /\ calls' = <<>>
    /\ escaped' = FALSE
    /\ UNCHANGED <<isActive, currentStep, store, lastWrite, runCompletes, runSkips>>

\* A keydown event reaches window; React commits before the next event.
KeyDown ==
    /\ mounted
    /\ \E key \in KeyboardKeys :
        LET h == IF KeydownListenerInstalled THEN handleKeyDown(rIsActive, key) ELSE "none" IN
        /\ op' = [name |-> "keydown", key |-> key]
        /\ CASE h = "skipTour" -> (\E f \in WriteFaults : skipTour(f)) /\ advances' = -1
             [] h = "nextStep" ->
                    /\ \E f \in WriteFaults : nextStep(f)
                    /\ advances' = IF advances >= 0 /\ advances < totalSteps
                                   THEN advances + 1 ELSE -1
             [] h = "prevStep" -> prevStep /\ advances' = -1
             [] OTHER -> NoHandler /\ UNCHANGED advances
    /\ Commit
    /\ UNCHANGED frame

\* React renders with the cells' current values.
Render ==
    /\ mounted
    /\ batch > 0
    /\ rIsActive' = isActive
    /\ rCurrentStep' = currentStep
    /\ batch' = 0
    /\ op' = [name |-> "render"]
    /\ calls' = <<>>
    /\ escaped' = FALSE
    /\ activeElement' = Detach(activeElement, TooltipRenders(isActive, currentStep),
                               currentStep)
    /\ AutoFocusEffect(isActive, currentStep)
    /\ UNCHANGED <<frame, isActive, currentStep, store, lastWrite, runCompletes, runSkips,
                   advances, previousFocusRef, shownFrom>>

\* The user moves the focus to an element of the page (or away from any).
FocusMoves ==
    /\ mounted
    /\ \E el \in PageElements :
        /\ el # activeElement
        /\ activeElement' = el
        /\ op' = [name |-> "focus", element |-> el]
    /\ calls' = <<>>
    /\ escaped' = FALSE
    /\ UNCHANGED <<frame, isActive, currentStep, rIsActive, rCurrentStep, batch, store,
                   lastWrite, runCompletes, runSkips, advances, previousFocusRef,
                   focusTimer, shownFrom>>

\* The tooltip's timer fires: nextButtonRef.current?.focus().
AutoFocusTimer ==
    /\ focusTimer
    /\ focusTimer' = FALSE
    /\ activeElement' = NEXT_BUTTON
    /\ op' = [name |-> "focusTimer"]
    /\ calls' = <<>>
    /\ escaped' = FALSE
    /\ UNCHANGED <<frame, isActive, currentStep, rIsActive, rCurrentStep, batch, store,
                   lastWrite, runCompletes, runSkips, advances, previousFocusRef, shownFrom>>

\* The user presses Tab or Shift+Tab.  From a button of the shown tooltip the
\* event passes the tooltip's handler; from anywhere else the browser alone
\* moves the focus, to an element of the page or into the tooltip.
TabPress ==
    /\ mounted
    /\ \E shift \in BOOLEAN :
        /\ op' = [name |-> "tab", shift |-> shift, from |-> activeElement]
        /\ IF activeElement \in TooltipButtons
           THEN activeElement' =
                    TooltipKeyDown(getFocusableElements(rCurrentStep), activeElement, shift)
           ELSE \E el \in PageElements \cup TooltipButtons :
                    /\ Attached(el, TooltipMounted, rCurrentStep)
                    /\ activeElement' = el
    /\ calls' = <<>>
    /\ escaped' = FALSE
    /\ UNCHANGED <<frame, isActive, currentStep, rIsActive, rCurrentStep, batch, store,
                   lastWrite, runCompletes, runSkips, advances, previousFocusRef,
                   focusTimer, shownFrom>>

\* ---------------------------------------------------------------- unmount
\* TourSpotlight and TourTooltip subscribe to resize and scroll while they are
\* rendered, and unsubscribe when they are removed.
ViewportListenersInstalled == TooltipMounted

\* The host removes the provider: the effect cleanups run (keydown listener,
\* viewport subscriptions, focus timer) and the overlay leaves the document.
\* The closures of the last render stay what they were.
Unmount ==
    /\ mounted
    /\ mounted' = FALSE
    /\ op' = [name |-> "unmount"]
    /\ calls' = <<>>
    /\ escaped' = FALSE
    /\ focusTimer' = FALSE
    /\ activeElement' = Detach(activeElement, FALSE, 0)
    /\ UNCHANGED <<props, autoStart, autoStarts, mountAutoStart, view, isActive, currentStep,
                   rIsActive, rCurrentStep, batch, store, lastWrite, runCompletes, runSkips,
                   advances, previousFocusRef, shownFrom>>

\* The provider is mounted once.
MountOnce == op.name = "init" /\ Mount

\* A keydown event reaches window after the provider was removed: a listener
\* still installed would run the handlers of the last render, whose state
\* updates go nowhere but whose storage write and callbacks happen.
KeyDownUnmounted ==
    /\ ~mounted
    /\ op.name # "init"
    /\ \E key \in KeyboardKeys :
        LET h == IF KeydownListenerInstalled THEN handleKeyDown(rIsActive, key) ELSE "none" IN
        /\ op' = [name |-> "keydown", key |-> key]
        /\ CASE h = "skipTour" -> \E f \in WriteFaults : skipTour(f)
             [] h = "nextStep" -> \E f \in WriteFaults : nextStep(f)
             [] h = "prevStep" -> prevStep
             [] OTHER -> NoHandler
    /\ UNCHANGED <<frame, rIsActive, rCurrentStep, batch, advances, activeElement,
                   previousFocusRef, focusTimer, shownFrom>>

\* A resize or scroll event: the subscribed components re-render, the tour
\* state is not theirs to change.
ViewportEvent ==
    /\ op.name # "init"
    /\ op' = [name |-> "viewport", handled |-> ViewportListenersInstalled]
    /\ NoHandler
    /\ UNCHANGED <<frame, rIsActive, rCurrentStep, batch, advances, activeElement,
                   previousFocusRef, focusTimer, shownFrom>>

\* ------------------------------------------------------ rendering layer
\* Everything but the view.
tour == <<tourId, totalSteps, autoStart, mounted, autoStarts, mountAutoStart, isActive,
          currentStep, rIsActive, rCurrentStep, batch, store, op, calls, escaped,
          runCompletes, runSkips, advances, lastWrite, activeElement, previousFocusRef,
          focusTimer, shownFrom>>

\* TourTooltip positions itself for a target box, a placement, its size and the
\* viewport.
GetTooltipPosition ==
    /\ view.fn = "none"
    /\ \E hasRect \in BOOLEAN, rect \in TargetRects, position \in Placements,
          size \in TooltipSizes, vp \in Viewports :
        view' = [fn |-> "getTooltipPosition", hasRect |-> hasRect, rect |-> rect,
                 position |-> position, size |-> size, vp |-> vp,
                 result |-> getTooltipPosition(hasRect, rect, position, size, vp)]
    /\ UNCHANGED tour

\* TourSpotlight draws the cutout of a target box.
CalculateSpotlightPath ==
    /\ view.fn = "none"
    /\ \E rect \in TargetRects, padding \in Paddings, borderRadius \in BorderRadii,
          vp \in Viewports :
        view' = [fn |-> "calculateSpotlightPath", rect |-> rect, padding |-> padding,
                 borderRadius |-> borderRadius, vp |-> vp,
                 result |-> calculateSpotlightPath(rect, padding, borderRadius, vp)]
    /\ UNCHANGED tour

\* The provider renders the overlay of a step: the step may be missing from the
\* catalog, its target may be missing from the document.
RenderOverlay ==
    /\ view.fn = "none"
    /\ \E isMounted \in BOOLEAN, active \in BOOLEAN, step \in TourSteps \cup {NoStep},
          found \in BOOLEAN, vp \in Viewports :
        LET data == currentStepData(active, step)
            target == targetElement(active, data, found)
            rect == [left |-> 100, top |-> 100, width |-> 100, height |-> 50]
            size == [width |-> TOOLTIP_WIDTH, height |-> TOOLTIP_HEIGHT]
        IN view' = [fn |-> "renderOverlay", isMounted |-> isMounted, active |-> active,
                    step |-> data, found |-> found, vp |-> vp, size |-> size,
                    result |-> renderOverlay(isMounted, active, data, target, rect,
                                             size, vp)]
    /\ UNCHANGED tour

\* --------------------------------------------- direct persistence calls
\* The exported functions, called by the host in the browser or while rendering
\* on the server (win = FALSE).
hook == <<isActive, currentStep, rIsActive, rCurrentStep, batch, runCompletes, runSkips,
          advances, activeElement, previousFocusRef, focusTimer, shownFrom>>

CallIsTourCompleted ==
    /\ \E win \in BOOLEAN, rc \in BOOLEAN :
        /\ win \/ ~rc
        /\ op' = [name |-> "isTourCompleted", win |-> win, rc |-> rc,
                  result |-> isTourCompleted(win, rc, store)]
    /\ calls' = <<>>
    /\ escaped' = FALSE
    /\ UNCHANGED <<frame, hook, store, lastWrite>>

CallShouldShowTour ==
    /\ \E win \in BOOLEAN, rc \in BOOLEAN, rv \in BOOLEAN :
        /\ win \/ (~rc /\ ~rv)
        /\ op' = [name |-> "shouldShowTour", win |-> win, rc |-> rc, rv |-> rv,
                  result |-> shouldShowTour(win, rc, rv, store)]
    /\ calls' = <<>>
    /\ escaped' = FALSE
    /\ UNCHANGED <<frame, hook, store, lastWrite>>

CallMarkTourCompleted ==
    /\ \E win \in BOOLEAN, f \in WriteFaults :
        /\ win \/ f = "none"
        /\ LET w == markTourCompleted(win, f, store) IN
            /\ store' = w.store
            /\ escaped' = w.thrown
            /\ calls' = w.log
            /\ lastWrite' = IF win THEN [fn |-> "markTourCompleted", fault |-> f] ELSE lastWrite
            /\ op' = [name |-> "markTourCompleted", win |-> win,
                      again |-> (op.name = "markTourCompleted")]
    /\ UNCHANGED <<frame, hook>>

CallResetTour ==
    /\ \E win \in BOOLEAN, f \in WriteFaults :
        /\ win \/ f = "none"
        /\ LET w == resetTour(win, f, store) IN
            /\ store' = w.store
            /\ escaped' = w.thrown
            /\ calls' = w.log
            /\ lastWrite' = IF win THEN [fn |-> "resetTour", fault |-> f] ELSE lastWrite
            /\ op' = [name |-> "resetTour", win |-> win]
    /\ UNCHANGED <<frame, hook>>

\* ------------------------------------------------------- specifications
\* The mounted tour driven by UI events, one handler call per commit.
Next ==
    \/ Mount
    \/ Rerender
    \/ StartTour
    \/ NextStep
    \/ PrevStep
    \/ SkipTour
    \/ GoToStep
    \/ KeyDown

Spec == Init /\ [][Next]_vars

\* The mounted tour with handlers that may be called several times between
\* two renders.
NextBatched ==
    \/ Mount
    \/ Rerender
    \/ InvokeStartTour
    \/ InvokeNextStep
    \/ InvokePrevStep
    \/ InvokeSkipTour
    \/ InvokeGoToStep
    \/ Render

SpecBatched == Init /\ [][NextBatched]_vars

\* The mounted tour together with the focus traffic around it: the user moving
\* the focus on the page and the tooltip focusing its Next button.  The
\* record starts empty.
InitFocus ==
    /\ Init
    /\ tourId = "meeting"
    /\ \A k \in Keys : store[k] = NULL

NextFocus ==
    \/ Next
    \/ FocusMoves
    \/ AutoFocusTimer

SpecFocus == InitFocus /\ [][NextFocus]_vars

\* A user who walks the tour: starts it when it is not shown, and then only
\* advances or skips.  Pressing Next is repeated for as long as the tour is
\* shown (weak fairness of the advance).
StartInactive == ~isActive /\ StartTour
AdvanceActive == isActive /\ NextStep
SkipActive == isActive /\ SkipTour

NextWalk ==
    \/ Mount
    \/ StartInactive
    \/ AdvanceActive
    \/ SkipActive

SpecWalk == Init /\ [][NextWalk]_vars /\ WF_vars(AdvanceActive)

\* The geometry functions applied to every sampled box, placement, size and
\* viewport, from one state of the tour.
InitGeometry ==
    /\ Init
    /\ tourId = "meeting"
    /\ totalSteps = MaxSteps
    /\ ~autoStart
    /\ \A k \in Keys : store[k] = NULL

NextGeometry ==
    \/ GetTooltipPosition
    \/ CalculateSpotlightPath

SpecGeometry == InitGeometry /\ [][NextGeometry]_vars

\* The overlay rendered for every step shape, with and without its target in
\* the document.
NextOverlay ==
    \/ RenderOverlay

SpecOverlay == InitGeometry /\ [][NextOverlay]_vars

\* The life of one provider: mounted, used, removed; key and viewport events keep
\* arriving after it is gone.
NextUnmount ==
    \/ MountOnce
    \/ StartTour
    \/ NextStep
    \/ PrevStep
    \/ SkipTour
    \/ GoToStep
    \/ KeyDown
    \/ Unmount
    \/ KeyDownUnmounted
    \/ ViewportEvent

SpecUnmount == InitFocus /\ [][NextUnmount]_vars

\* The shown tour under the keyboard: the tour is walked back and forth while
\* Tab and Shift+Tab are pressed and the auto-focus timer runs.
NextTrap ==
    \/ Mount
    \/ StartTour
    \/ NextStep
    \/ PrevStep
    \/ SkipTour
    \/ AutoFocusTimer
    \/ TabPress

SpecTrap == InitFocus /\ [][NextTrap]_vars

\* The persistence gate on its own: the exported functions applied to every
\* record, window and fault.
NextGate ==
    \/ CallIsTourCompleted
    \/ CallShouldShowTour
    \/ CallMarkTourCompleted
    \/ CallResetTour

SpecGate == Init /\ [][NextGate]_vars

\* ------------------------------------------------------------------ C1

\* C1: after startTour followed by exactly k nextStep calls on a catalog of
\* n >= 1 steps, the tour is at step k with no completion while k < n, and at
\* k = n it is inactive at step 0 with onComplete invoked exactly once and
\* onSkip never.
C1_AdvanceThroughCompletesOnce ==
    (totalSteps >= 1 /\ advances >= 0) =>
        IF advances < totalSteps
        THEN isActive /\ currentStep = advances /\ runCompletes = 0 /\ runSkips = 0
        ELSE ~isActive /\ currentStep = 0 /\ runCompletes = 1 /\ runSkips = 0

C1_Witness ==
    /\ totalSteps = 3
    /\ advances = 3
    /\ op.name = "nextStep"
    /\ ~isActive
    /\ runCompletes = 1
    /\ Called("onComplete")

\* ------------------------------------------------------------------ C2
\* The step ends an active tour: skipTour from any step, or nextStep on the
\* last step.
SkipsActive == op'.name = "skipTour" /\ rIsActive
CompletesActive == op'.name = "nextStep" /\ rIsActive /\ rCurrentStep = totalSteps - 1
RecordedNext ==
    /\ store'[TOUR_COMPLETED_KEY] = "true"
    /\ store'[TOUR_VERSION_KEY] = CURRENT_TOUR_VERSION
OneCallbackNext(mine, other) == CountNext(mine) = 1 /\ CountNext(other) = 0

\* C2 as stated: every terminal transition of an active tour leaves the record
\* completed = true, version = current, and invokes exactly its own callback.
C2_Original ==
    [][(SkipsActive => RecordedNext /\ OneCallbackNext("onSkip", "onComplete"))
       /\ (CompletesActive => RecordedNext /\ OneCallbackNext("onComplete", "onSkip"))]_vars

\* C2 amended: every terminal transition of an active tour invokes exactly its
\* own callback, and leaves the record completed = true, version = current
\* whenever neither storage write throws.
C2_TerminalTransitions ==
    [][((SkipsActive \/ CompletesActive) =>
            /\ CountNext("markTourCompleted") = 1
            /\ (lastWrite'.fault = "none" => RecordedNext)
            /\ ~isActive')
       /\ (SkipsActive => OneCallbackNext("onSkip", "onComplete"))
       /\ (CompletesActive => OneCallbackNext("onComplete", "onSkip"))]_vars

C2_Witness ==
    /\ op.name = "skipTour"
    /\ ~isActive
    /\ Called("onSkip")
    /\ lastWrite = [fn |-> "markTourCompleted", fault |-> "none"]
    /\ store[TOUR_COMPLETED_KEY] = "true"
    /\ store[TOUR_VERSION_KEY] = CURRENT_TOUR_VERSION
    /\ totalSteps = 3

\* ------------------------------------------------------------------ C3
\* C3: in every state the operations reach, whenever the tour is active,
\* 0 <= currentStep < totalSteps.
C3_StepIndexInRange ==
    isActive => (0 <= currentStep /\ currentStep < totalSteps)

C5_FailsSafeToFalse ==
    (op.name = "isTourCompleted" /\ (~op.win \/ op.rc)) => ~op.result

\* ------------------------------------------------------------------ C6
\* A partial write: the first storage call went through, the second threw.
PartialWrite == lastWrite.fault = "second"
ReadAfterWrite == op.name = "shouldShowTour" /\ op.win

\* C6 as stated: after any partial write the next shouldShowTour is true.
C6_Original ==
    (PartialWrite /\ ReadAfterWrite) => op.result

\* C6 amended: after a partial resetTour the next shouldShowTour (in the
\* browser) is true; after a partial markTourCompleted it is true unless the
\* version the failed write left in place already is the current one.
C6_PartialWrite ==
    (PartialWrite /\ ReadAfterWrite) =>
        (op.result <=> (\/ lastWrite.fn = "resetTour"
                        \/ op.rc \/ op.rv
                        \/ store[TOUR_VERSION_KEY] # CURRENT_TOUR_VERSION))

C6_Witness ==
    /\ lastWrite = [fn |-> "markTourCompleted", fault |-> "second"]
    /\ op.name = "shouldShowTour"
    /\ op.win /\ ~op.rc /\ ~op.rv
    /\ store[TOUR_COMPLETED_KEY] = "true"
    /\ store[TOUR_VERSION_KEY] = NULL
    /\ op.result

\* ------------------------------------------------------------------ C7
\* The last operation was a terminal transition whose storage write threw.
FailedTerminal(name) ==
    /\ op.name = name
    /\ Called("markTourCompleted")
    /\ lastWrite.fault # "none"

\* C7: when markTourCompleted's write throws during skipTour or completion, no
\* exception leaves the handler, the tour is inactive at step 0, and the
\* onSkip / onComplete callback has been invoked.
C7_FailedWriteDoesNotBlock ==
    /\ FailedTerminal("skipTour") =>
        ~escaped /\ ~isActive /\ currentStep = 0 /\ Called("onSkip")
    /\ FailedTerminal("nextStep") =>
        ~escaped /\ ~isActive /\ currentStep = 0 /\ Called("onComplete")

C7_Witness ==
    /\ FailedTerminal("nextStep")
    /\ lastWrite.fault = "first"
    /\ totalSteps = 2
    /\ advances = 2
    /\ store[TOUR_COMPLETED_KEY] = NULL
    /\ Called("console.error")
    /\ Called("onComplete")
    /\ ~isActive

\* ------------------------------------------------------------------ C8
\* C8: a terminal transition of the mounted tour records completion under
\* tour:<tourId>:completed and leaves every other tour's flag as it was.
C8_PerTourCompletion ==
    [][((SkipsActive \/ CompletesActive) /\ lastWrite'.fault = "none") =>
            /\ store'[CompletedKeyOf(tourId)] = "true"
            /\ \A id \in TourIds \ {tourId} :
                   store'[CompletedKeyOf(id)] = store[CompletedKeyOf(id)]]_vars

\* ------------------------------------------------------------------ C9
\* C9: the auto-start effect has called startTour once if autoStart was true at
\* mount and never otherwise, and no re-render, whatever autoStart it brings,
\* starts the tour or changes its state.
C9_AutoStartLatched ==
    [][/\ autoStarts' = (IF mounted' /\ mountAutoStart' THEN 1 ELSE 0)
       /\ (op'.name = "mount" =>
              (isActive' <=> autoStart) /\ (CalledNext("onStart") <=> autoStart))
       /\ (op'.name = "rerender" =>
              /\ isActive' = isActive
              /\ currentStep' = currentStep
              /\ ~CalledNext("onStart"))]_vars

C9_Witness ==
    /\ mounted
    /\ ~mountAutoStart
    /\ autoStart
    /\ op.name = "rerender"
    /\ ~isActive
    /\ autoStarts = 0

\* ------------------------------------------------------------------ C10
\* C10: prevStep on an active tour at step 0 changes nothing (active flag, step,
\* record) and calls nothing; at step i > 0 it moves to step i - 1.
C10_PrevStep ==
    [][(op'.name = "prevStep" /\ rIsActive) =>
            /\ isActive'
            /\ currentStep' = (IF rCurrentStep = 0 THEN 0 ELSE rCurrentStep - 1)
            /\ calls' = <<>>
            /\ ~escaped'
            /\ store' = store
            /\ lastWrite' = lastWrite
            /\ runCompletes' = runCompletes
            /\ runSkips' = runSkips]_vars

C10_Witness ==
    /\ op.name = "prevStep"
    /\ totalSteps = 1
    /\ isActive
    /\ currentStep = 0
    /\ calls = <<>>

\* ------------------------------------------------------------------ C11
\* C11: goToStep(k) on an active tour moves to step k when 0 <= k < totalSteps;
\* for any other k the step and the active flag stay as they were; either way
\* nothing is called, nothing is thrown and nothing is written.
C11_GoToStep ==
    [][(op'.name = "goToStep" /\ rIsActive) =>
            /\ isActive'
            /\ currentStep' = (IF 0 <= op'.step /\ op'.step < totalSteps
                               THEN op'.step ELSE rCurrentStep)
            /\ calls' = <<>>
            /\ ~escaped'
            /\ store' = store
            /\ runCompletes' = runCompletes
            /\ runSkips' = runSkips]_vars

C11_Witness ==
    /\ op.name = "goToStep"
    /\ op.step = totalSteps
    /\ totalSteps = 3
    /\ isActive
    /\ currentStep = 1

\* ------------------------------------------------------------------ C12
\* The hook state and the record are as they were and nothing was called.
Untouched ==
    /\ isActive' = isActive
    /\ currentStep' = currentStep
    /\ store' = store
    /\ calls' = <<>>
    /\ ~escaped'
    /\ runCompletes' = runCompletes
    /\ runSkips' = runSkips

\* C12: a keydown while the tour is active does what the matching operation
\* does (Escape: skipTour, ArrowRight and Enter: nextStep, ArrowLeft:
\* prevStep, any other key: nothing); a keydown while the tour is inactive
\* changes no tour state, calls nothing and writes nothing.
C12_KeyboardWhileActive ==
    [][op'.name = "keydown" =>
          IF rIsActive
          THEN /\ op'.key = "Escape" =>
                    /\ \E f \in WriteFaults : skipTour(f)
                    /\ ~isActive' /\ currentStep' = 0
                    /\ OneCallbackNext("onSkip", "onComplete")
               /\ op'.key \in {"ArrowRight", "Enter"} =>
                    /\ \E f \in WriteFaults : nextStep(f)
                    /\ IF rCurrentStep >= totalSteps - 1
                       THEN ~isActive' /\ OneCallbackNext("onComplete", "onSkip")
                       ELSE isActive' /\ currentStep' = rCurrentStep + 1
               /\ op'.key = "ArrowLeft" => prevStep
               /\ op'.key = "Tab" => Untouched
          ELSE Untouched]_vars

C12_Witness ==
    /\ op.name = "keydown"
    /\ op.key = "Enter"
    /\ totalSteps = 3
    /\ isActive
    /\ currentStep = 2
    /\ advances = 2

\* ------------------------------------------------------------------ C13
\* C13: when an element of the page was focused before the tour was shown, a
\* completion or skip that ends the active tour, after any operations in
\* between, leaves the focus on that element.
C13_FocusRestored ==
    [][((SkipsActive \/ CompletesActive) /\ shownFrom = "trigger") =>
            activeElement' = "trigger"]_vars

\* ------------------------------------------------------------------ C14
\* C14: an active tour always eventually becomes inactive when nextStep keeps
\* being called: from step i of n each nextStep moves to step i + 1 and the one
\* at step n - 1 ends the tour (n - i advances); skipTour ends it in one step;
\* and whenever the tour is inactive startTour can activate it again.
C14_ActiveReturnsToInactive ==
    /\ isActive ~> ~isActive
    /\ [][(op'.name = "nextStep" /\ isActive /\ currentStep < totalSteps) =>
              IF currentStep = totalSteps - 1
              THEN ~isActive'
              ELSE isActive' /\ currentStep' = currentStep + 1]_vars
    /\ [][(op'.name = "skipTour" /\ isActive) => ~isActive']_vars
    /\ []((mounted /\ ~isActive) => ENABLED <<StartInactive>>_vars)

C14_Witness ==
    /\ op.name = "startTour"
    /\ isActive
    /\ currentStep = 0
    /\ totalSteps = 3
    /\ lastWrite.fn = "markTourCompleted"
    /\ previousFocusRef # NULL

\* ------------------------------------------------------------------ C15
\* C15: startTour, from the inactive state or from any step of an active tour,
\* leaves the tour active at step 0 and invokes onStart once; it writes nothing
\* to storage and throws nothing.
C15_StartTour ==
    [][op'.name = "startTour" =>
            /\ isActive'
            /\ currentStep' = 0
            /\ calls' = <<"onStart">>
            /\ ~escaped'
            /\ store' = store
            /\ lastWrite' = lastWrite]_vars

\* startTour called on a tour the mount effect started and nothing has ended.
C15_Witness ==
    /\ op.name = "startTour"
    /\ autoStarts = 1
    /\ lastWrite = NoWrite
    /\ totalSteps = 3
    /\ isActive
    /\ currentStep = 0

\* ------------------------------------------------------------------ C16
\* markTourCompleted called right after markTourCompleted.
MarkedTwice == op.name = "markTourCompleted" /\ op'.name = "markTourCompleted"

\* C16 as stated: a second markTourCompleted leaves the record the first one
\* left, and that record is completed = true, version = current.
C16_Original ==
    [][MarkedTwice => (store' = store /\ RecordedNext)]_vars

\* C16 amended: a second markTourCompleted made under the conditions of the
\* first (both with a window and the same storage call, if any, throwing, or
\* both without a window) leaves the record the first one left; when both run
\* with a window and nothing throws that record is completed = true, version =
\* current.
C16_Idempotent ==
    [][MarkedTwice =>
          /\ (~op.win /\ ~op'.win) => store' = store
          /\ (op.win /\ op'.win /\ lastWrite'.fault = lastWrite.fault) => store' = store
          /\ (op.win /\ op'.win /\ lastWrite.fault = "none" /\ lastWrite'.fault = "none")
                => RecordedNext]_vars

C16_Witness ==
    /\ op.name = "markTourCompleted"
    /\ op.again
    /\ op.win
    /\ lastWrite = [fn |-> "markTourCompleted", fault |-> "none"]
    /\ store[TOUR_COMPLETED_KEY] = "true"
    /\ store[TOUR_VERSION_KEY] = CURRENT_TOUR_VERSION

\* ------------------------------------------------------------------ C17
\* A directional placement of a tooltip for a target box.
Directional == view.fn = "getTooltipPosition" /\ view.hasRect /\ view.position # "center"
InsideX == /\ VIEWPORT_PADDING <= view.result.left
           /\ view.result.left + view.size.width <= view.vp.w - VIEWPORT_PADDING
InsideY == /\ VIEWPORT_PADDING <= view.result.top
           /\ view.result.top + view.size.height <= view.vp.h - VIEWPORT_PADDING
RightExample ==
    /\ Directional
    /\ view.position = "right"
    /\ view.size.width = 320
    /\ view.rect.left + view.rect.width = 780
    /\ view.vp.w = 800

\* C17 as stated: for every directional placement, target box, tooltip size and
\* viewport the tooltip's rectangle lies inside the viewport shrunk by 16 on
\* every side.
C17_Original == Directional => (InsideX /\ InsideY)

\* C17 amended: on each axis on which the viewport has room for the tooltip and
\* both insets (viewport >= tooltip + 32) the tooltip lies inside the viewport
\* shrunk by 16; on an axis without that room the anchor is the near inset, 16.
\* Placement right, tooltip 320 wide, target right 780, viewport 800: left 464.
C17_ClampedWhenRoom ==
    /\ Directional =>
        /\ IF view.vp.w >= view.size.width + 2 * VIEWPORT_PADDING
           THEN InsideX ELSE view.result.left = VIEWPORT_PADDING
        /\ IF view.vp.h >= view.size.height + 2 * VIEWPORT_PADDING
           THEN InsideY ELSE view.result.top = VIEWPORT_PADDING
    /\ RightExample => view.result.left = 464

C17_Witness ==
    /\ RightExample
    /\ view.size.height = 200
    /\ view.vp.h = 600
    /\ view.rect.top = 100
    /\ view.result.left = 464

\* ------------------------------------------------------------------ C18
SpotlightExample ==
    /\ view.fn = "calculateSpotlightPath"
    /\ view.rect = [left |-> 100, top |-> 100, width |-> 100, height |-> 50]
    /\ view.padding = 8
    /\ view.borderRadius = 8

\* C18: the cutout is the target box grown by padding on its four sides, its
\* radius is the smallest of cornerRadius, half the grown width and half the
\* grown height (so never more than either half); box {100,100,200,150},
\* padding 8, radius 8 gives {92,92,208,158} and radius 8.
C18_SpotlightCutout ==
    /\ view.fn = "calculateSpotlightPath" =>
        LET c == view.result
            width == view.rect.width + 2 * view.padding
            height == view.rect.height + 2 * view.padding
        IN /\ c.left = view.rect.left - view.padding
           /\ c.top = view.rect.top - view.padding
           /\ c.right = view.rect.left + view.rect.width + view.padding
           /\ c.bottom = view.rect.top + view.rect.height + view.padding
           /\ 2 * c.r <= width
           /\ 2 * c.r <= height
           /\ c.r <= view.borderRadius
           /\ (c.r = view.borderRadius \/ 2 * c.r = width \/ 2 * c.r = height)
    /\ SpotlightExample =>
        /\ <<view.result.left, view.result.top, view.result.right, view.result.bottom>>
              = <<92, 92, 208, 158>>
        /\ view.result.r = 8

C18_Witness ==
    /\ SpotlightExample
    /\ view.vp = [w |-> 800, h |-> 600]
    /\ view.result.r = 8
    /\ view.result.right = 208

\* ------------------------------------------------------------------ C19
Rendered == view.fn = "renderOverlay" /\ view.result.rendered
Resolved == view.step.targetId # NULL /\ view.found

\* C19: a cutout is emitted only for a spotlight step whose target is resolved;
\* a modal step and a step with an unresolved target get no cutout, and every
\* modal step rendered gets the full-viewport backdrop.
C19_CutoutOnlyForResolvedSpotlight ==
    /\ (view.fn = "renderOverlay" /\ view.result.cutout) =>
            (view.step.type = "spotlight" /\ Resolved)
    /\ (Rendered /\ view.step.type = "modal") =>
            (view.result.backdrop /\ ~view.result.cutout)
    /\ (Rendered /\ view.step.type = "spotlight" /\ Resolved) => view.result.cutout

C19_Witness ==
    /\ Rendered
    /\ view.step.type = "modal"
    /\ view.step.targetId = "record-button"
    /\ view.found
    /\ view.result.backdrop
    /\ ~view.result.cutout

\* ------------------------------------------------------------------ C20
\* C20: a spotlight step whose target is not in the document is rendered with
\* the tooltip at the center of the viewport and with the modal backdrop, and
\* without a cutout.
C20_UnresolvedTargetModalStyled ==
    (Rendered /\ view.step.type = "spotlight" /\ view.step.targetId # NULL /\ ~view.found) =>
        /\ view.result.anchor = TooltipCenter(view.size, view.vp)
        /\ ~view.result.cutout
        /\ view.result.backdrop

\* ------------------------------------------------------------------ C21
\* C21: when the provider is unmounted, with the tour active or not, no keydown
\* and no viewport listener stays installed, and every later key or viewport
\* event leaves the tour state and the record alone and calls nothing.
C21_NoListenerAfterUnmount ==
    [][/\ op'.name = "unmount" =>
            (~KeydownListenerInstalled' /\ ~ViewportListenersInstalled')
       /\ (~mounted /\ op'.name \in {"keydown", "viewport"}) =>
            (Untouched /\ lastWrite' = lastWrite)
       /\ (~mounted /\ op'.name = "viewport") => ~op'.handled]_vars

\* Escape pressed after the provider was removed in the middle of a tour.
C21_Witness ==
    /\ ~mounted
    /\ op.name = "keydown"
    /\ op.key = "Escape"
    /\ rIsActive
    /\ rCurrentStep = 1
    /\ lastWrite = NoWrite
    /\ store[TOUR_COMPLETED_KEY] = NULL

\* ------------------------------------------------------------------ C22
\* The focus is on one of the buttons of the tooltip shown.
FocusInTooltip ==
    TooltipMounted /\ activeElement \in TooltipButtons
    /\ Attached(activeElement, TRUE, rCurrentStep)

\* C22: while the tooltip is shown, Tab on its last button moves the focus to
\* its first and Shift+Tab on its first to its last, and a Tab or Shift+Tab
\* pressed with the focus on one of its buttons leaves the focus on one of its
\* buttons; once the auto-focus has run, the focus is on one of them after
\* every Tab and Shift+Tab.
C22_FocusTrap ==
    /\ [][(op'.name = "tab" /\ FocusInTooltip) =>
              LET focusable == getFocusableElements(rCurrentStep) IN
              /\ FocusInTooltip'
              /\ (~op'.shift /\ activeElement = focusable[Len(focusable)]) =>
                     activeElement' = focusable[1]
              /\ (op'.shift /\ activeElement = focusable[1]) =>
                     activeElement' = focusable[Len(focusable)]]_vars
    /\ []((TooltipMounted /\ ~focusTimer) => FocusInTooltip)

C22_Witness ==
    /\ op.name = "tab"
    /\ ~op.shift
    /\ op.from = NEXT_BUTTON
    /\ activeElement = CLOSE_BUTTON
    /\ rCurrentStep = 1
    /\ TooltipMounted

\* ------------------------------------------------------------------ C23
\* C23: when nextStep or prevStep of one render of an active tour (non-empty
\* catalog) is called again before the next render, the step stays within
\* 0 .. totalSteps - 1 while the tour is active and onComplete is not invoked a
\* second time in the run.
C23_BatchedCallsStayInRange ==
    [][(op'.name \in {"nextStep", "prevStep"} /\ rIsActive /\ totalSteps >= 1) =>
            /\ isActive' => (0 <= currentStep' /\ currentStep' < totalSteps)
            /\ CalledNext("onComplete") => runCompletes = 0]_vars

\* ------------------------------------------------------------------ C24
\* C24: nextStep, prevStep, goToStep and skipTour called while the tour is
\* inactive leave the record alone and invoke neither onComplete nor onSkip.
C24_InactiveNavigationIsInert ==
    [][(op'.name \in {"nextStep", "prevStep", "goToStep", "skipTour"} /\ ~rIsActive) =>
            /\ store' = store
            /\ ~CalledNext("markTourCompleted")
            /\ ~CalledNext("onComplete")
            /\ ~CalledNext("onSkip")]_vars

\* ------------------------------------------------------------------ C25
\* C25: whenever the tour is inactive its step index is 0.
C25_InactiveStepIsZero == ~isActive => currentStep = 0

\* ------------------------------------------------------------------ C26
IndexNext(name) == CHOOSE i \in 1 .. Len(calls') : calls'[i] = name
WriteBeforeNext(callback) ==
    CalledNext(callback) =>
        /\ CalledNext("markTourCompleted")
        /\ IndexNext("markTourCompleted") < IndexNext(callback)
        /\ lastWrite'.fault = "none" => ~shouldShowTour(TRUE, FALSE, FALSE, store')

\* C26: whenever onComplete or onSkip is invoked, markTourCompleted was called
\* before it in the same transition, and when its writes went through
\* shouldShowTour read from the callback is false.
C26_WriteBeforeCallback ==
    [][WriteBeforeNext("onComplete") /\ WriteBeforeNext("onSkip")]_vars

C26_Witness ==
    /\ op.name = "nextStep"
    /\ calls = <<"markTourCompleted", "onComplete">>
    /\ totalSteps = 3
    /\ advances = 3
    /\ lastWrite.fault = "none"
    /\ ~shouldShowTour(TRUE, FALSE, FALSE, store)

====
